---- MODULE Spec2Model ----
(***************************************************************************)
(* Model of rust_rcon.py: the RustRCONClient class (connect, disconnect,   *)
(* send_command) over a websocket transport, and the main() program run.   *)
(*                                                                         *)
(*   Spec      any sequence of connect(), disconnect() and send_command()  *)
(*             calls on one client object                                  *)
(*   SpecMain  one run of main(): connect, send_command, print, finally    *)
(*             disconnect, process exit                                    *)
(*                                                                         *)
(* The transport (the websocket library) is the environment: what          *)
(* create_connection, send and recv return or raise is chosen              *)
(* nondeterministically from the exception classes the code distinguishes. *)
(***************************************************************************)
EXTENDS Integers, Sequences, FiniteSets, TLC

VARIABLES
    ws,          \* self.ws: 0 models None, otherwise the id of a connection
    request_id,  \* self.request_id
    connState,   \* transport: connection id -> "unused" | "open" | "closed"
    closeCalls,  \* transport: connection id -> number of ws.close() calls made on it
    sent,        \* every message handed to ws.send(), in order: the connection, the
                 \* command of the call and the payload: [conn, cmd, payload]
    lastOp,      \* what the most recent client method call did and how it ended
    pc,          \* main(): position of the program run ("lib" when no run is modelled)
    raw,         \* main(): args.raw
    command,     \* main(): full_command
    response,    \* main(): the value send_command returned (NoValue before)
    out,         \* main(): the lines printed to stdout
    calls,       \* main(): the client methods main has called, in order
    sysExit,     \* main(): code of a sys.exit() in flight (-1: none)
    exitCode     \* the process exit status (-1 while the process is running)

clientVars == <<ws, request_id, connState, closeCalls, sent, lastOp>>
mainVars == <<pc, raw, command, response, out, calls, sysExit, exitCode>>
vars == <<ws, request_id, connState, closeCalls, sent, lastOp,
          pc, raw, command, response, out, calls, sysExit, exitCode>>

----------------------------------------------------------------------------
(* Bounds of the model *)

\* connections the transport can hand out (successful create_connection calls)
MaxConns == 2
\* send_command calls that reach the increment of request_id
MaxRequests == 3
\* ws.close() calls on one connection
MaxCloseCalls == 2

Conns == 1..MaxConns

\* the status the code compares e.status_code with
AuthStatus == 401

Statuses == {AuthStatus, 403}
Details == {"dns failure", "socket refused"}
Commands == {"status", "say hi"}

----------------------------------------------------------------------------
(* Exceptions.  A transport outcome is what a library call raises (or      *)
(* "none" when it returns); status_code and text are the attributes the    *)
(* code reads (e.status_code, str(e)).                                     *)

NoStatus == 0 - 1

Returned == [exc |-> "none", status_code |-> NoStatus, text |-> ""]
Raise(cls, status, text) == [exc |-> cls, status_code |-> status, text |-> text]

\* what websocket.create_connection can do
ConnectOutcomes ==
    {Returned,
     Raise("WebSocketTimeoutException", NoStatus, "timed out"),
     Raise("KeyboardInterrupt", NoStatus, "")}
    \cup {Raise("WebSocketBadStatusException", s, "Handshake status") : s \in Statuses}
    \cup {Raise("Exception", NoStatus, d) : d \in Details}

\* what ws.send / ws.recv can do besides returning
IoFailures ==
    {Raise("WebSocketTimeoutException", NoStatus, "timed out"),
     Raise("Exception", NoStatus, "socket is already closed."),
     Raise("KeyboardInterrupt", NoStatus, "")}

\* The exception a client method leaves with: type "none" is a normal return,
\* "RustRCONError" carries the message built by the code (its fixed text, and
\* the formatted status code or str(e) when the f-string has one).
NoError == [type |-> "none", fmt |-> "", status |-> NoStatus, detail |-> ""]
RustRCONError(fmt, status, detail) ==
    [type |-> "RustRCONError", fmt |-> fmt, status |-> status, detail |-> detail]
KeyboardInterrupt ==
    [type |-> "KeyboardInterrupt", fmt |-> "", status |-> NoStatus, detail |-> ""]

MsgTimedOut == "Connection timed out. Check your host and port."
MsgAuthFailed == "Authentication failed. Check your password."
MsgBadStatus == "Connection failed with status code: "
MsgConnectFailed == "Failed to connect: "
MsgNotConnected == "Not connected to server. Call connect() first."
MsgNoReply == "Server did not respond in time."
MsgInvalidJson == "Received invalid JSON response from server."
MsgSendError == "Error sending command: "

----------------------------------------------------------------------------
(* JSON.  A reply is what ws.recv() returns: the text of a text frame or   *)
(* the bytes of a binary frame.  form says what json.loads makes of it.    *)

Replies ==
    {[frame |-> "text", form |-> "object", hasMessage |-> TRUE,
      Message |-> "hostname: rust", text |-> "{Identifier:1,Message:hostname: rust}"],
     [frame |-> "text", form |-> "object", hasMessage |-> FALSE,
      Message |-> "", text |-> "{Identifier:1}"],
     [frame |-> "text", form |-> "array", hasMessage |-> FALSE,
      Message |-> "", text |-> "[1,2]"],
     [frame |-> "text", form |-> "garbage", hasMessage |-> FALSE,
      Message |-> "", text |-> "<html>busy</html>"],
     [frame |-> "binary", form |-> "nonutf8", hasMessage |-> FALSE,
      Message |-> "", text |-> "ff fe 00"]}

\* a decoded JSON value, as far as main() looks at it
NoValue == [type |-> "none", hasMessage |-> FALSE, Message |-> ""]

\* json.loads(response): the decoded value, or the exception it raises.
\* Text that is no JSON document raises JSONDecodeError; bytes that are not
\* UTF-8 raise UnicodeDecodeError, which is no JSONDecodeError.
JsonLoads(reply) ==
    CASE reply.form = "object" ->
            [exc |-> Returned,
             value |-> [type |-> "dict", hasMessage |-> reply.hasMessage,
                        Message |-> reply.Message]]
      [] reply.form = "array" ->
            [exc |-> Returned,
             value |-> [type |-> "list", hasMessage |-> FALSE, Message |-> ""]]
      [] reply.form = "garbage" ->
            [exc |-> Raise("JSONDecodeError", NoStatus, "Expecting value"),
             value |-> NoValue]
      [] OTHER ->
            [exc |-> Raise("UnicodeDecodeError", NoStatus, "invalid start byte"),
             value |-> NoValue]

Quote(s) == "\"" \o s \o "\""

\* mutant of JsonDumpsRequest: the keys are written in lower case
JsonDumpsRequest_LowerCaseKeys(n, c) ==
    << [key |-> "identifier", value |-> ToString(n)],
       [key |-> "message", value |-> "\"" \o c \o "\""],
       [key |-> "name", value |-> "\"WebRcon\""] >>

\* json.dumps({"Identifier": n, "Message": c, "Name": "WebRcon"}): the members
\* of the JSON object in insertion order, each as key and rendered value
JsonDumpsRequest(n, c) ==
    << [key |-> "Identifier", value |-> ToString(n)],
       [key |-> "Message", value |-> Quote(c)],
       [key |-> "Name", value |-> Quote("WebRcon")] >>

----------------------------------------------------------------------------
(* The client *)

\* `if self.ws:` -- a connection object is truthy, open or closed; None is not
Truthy(w) == w # 0

\* the Session of the client is open: it holds a connection that is open
SessionOpen == ws # 0 /\ connState[ws] = "open"

\* op: the method; err: the exception it left with; io: the transport calls it
\* made, in order; ret: its return value; closes: the ws.close() calls it made;
\* recvd: the raw text ws.recv() returned ("" when it returned none); exc: the
\* exception the transport or json.loads raised inside it (Returned: none);
\* pre_*: the client as it was when the method was called
OpRecord(op, err, io, ret, closes, recvd, exc) ==
    [op |-> op, err |-> err, io |-> io, ret |-> ret, closes |-> closes, recvd |-> recvd,
     exc |-> exc,
     pre_ws |-> ws, pre_request_id |-> request_id, pre_open |-> SessionOpen]

\* mutant of ConnectError: the status code is not looked at
ConnectError_StatusIgnored(e) ==
    CASE e.exc = "KeyboardInterrupt" -> KeyboardInterrupt
      [] e.exc = "WebSocketTimeoutException" ->
            RustRCONError(MsgTimedOut, NoStatus, "")
      [] e.exc = "WebSocketBadStatusException" ->
            RustRCONError(MsgAuthFailed, NoStatus, "")
      [] OTHER -> RustRCONError(MsgConnectFailed, NoStatus, e.text)

\* the except clauses of connect(), in order
ConnectError(e) ==
    CASE e.exc = "KeyboardInterrupt" -> KeyboardInterrupt
      [] e.exc = "WebSocketTimeoutException" ->
            RustRCONError(MsgTimedOut, NoStatus, "")
      [] e.exc = "WebSocketBadStatusException" ->
            IF e.status_code = AuthStatus
            THEN RustRCONError(MsgAuthFailed, NoStatus, "")
            ELSE RustRCONError(MsgBadStatus, e.status_code, "")
      [] OTHER -> RustRCONError(MsgConnectFailed, NoStatus, e.text)

\* the connection create_connection returns: a fresh one
FreshConn == CHOOSE c \in Conns : connState[c] = "unused" /\
                 \A d \in Conns : connState[d] = "unused" => c <= d

\* mutant of Connect: a successful connect() starts the counter again at 0
Connect_ResetsCounter(o) ==
    /\ o \in ConnectOutcomes
    /\ IF o = Returned
       THEN /\ \E c \in Conns : connState[c] = "unused"
            /\ ws' = FreshConn
            /\ connState' = [connState EXCEPT ![FreshConn] = "open"]
            /\ request_id' = 0
            /\ lastOp' = OpRecord("connect", NoError, <<"create_connection">>, NoValue, 0, "",
                                  Returned)
       ELSE /\ lastOp' = OpRecord("connect", ConnectError(o), <<"create_connection">>,
                                  NoValue, 0, "", o)
            /\ UNCHANGED <<ws, connState, request_id>>
    /\ UNCHANGED <<closeCalls, sent>>

\* mutant of Connect: a failed connect() drops the handle the client held
Connect_ClearsOnFailure(o) ==
    /\ o \in ConnectOutcomes
    /\ IF o = Returned
       THEN /\ \E c \in Conns : connState[c] = "unused"
            /\ ws' = FreshConn
            /\ connState' = [connState EXCEPT ![FreshConn] = "open"]
            /\ lastOp' = OpRecord("connect", NoError, <<"create_connection">>, NoValue, 0, "",
                                  Returned)
       ELSE /\ lastOp' = OpRecord("connect", ConnectError(o), <<"create_connection">>,
                                  NoValue, 0, "", o)
            /\ ws' = 0
            /\ UNCHANGED connState
    /\ UNCHANGED <<request_id, closeCalls, sent>>

\* RustRCONClient.connect, with create_connection ending as o
Connect(o) ==
    /\ o \in ConnectOutcomes
    /\ IF o = Returned
       THEN /\ \E c \in Conns : connState[c] = "unused"
            /\ ws' = FreshConn
            /\ connState' = [connState EXCEPT ![FreshConn] = "open"]
            /\ lastOp' = OpRecord("connect", NoError, <<"create_connection">>, NoValue, 0, "",
                                  Returned)
       ELSE /\ lastOp' = OpRecord("connect", ConnectError(o), <<"create_connection">>,
                                  NoValue, 0, "", o)
            /\ UNCHANGED <<ws, connState>>
    /\ UNCHANGED <<request_id, closeCalls, sent>>

\* mutant of Disconnect: the connection is never closed
Disconnect_NoClose ==
    /\ lastOp' = OpRecord("disconnect", NoError, <<>>, NoValue, 0, "", Returned)
    /\ UNCHANGED <<ws, request_id, connState, closeCalls, sent>>

\* RustRCONClient.disconnect
Disconnect ==
    IF Truthy(ws)
    THEN /\ closeCalls[ws] < MaxCloseCalls
         /\ closeCalls' = [closeCalls EXCEPT ![ws] = @ + 1]
         /\ connState' = [connState EXCEPT ![ws] = "closed"]
         /\ lastOp' = OpRecord("disconnect", NoError, <<"close">>, NoValue, 1, "", Returned)
         /\ UNCHANGED <<ws, request_id, sent>>
    ELSE /\ lastOp' = OpRecord("disconnect", NoError, <<>>, NoValue, 0, "", Returned)
         /\ UNCHANGED <<ws, request_id, connState, closeCalls, sent>>

\* mutant of SendError: no clause for JSONDecodeError
SendError_NoJsonClause(e) ==
    CASE e.exc = "KeyboardInterrupt" -> KeyboardInterrupt
      [] e.exc = "WebSocketTimeoutException" -> RustRCONError(MsgNoReply, NoStatus, "")
      [] OTHER -> RustRCONError(MsgSendError, NoStatus, e.text)

\* the except clauses of send_command(), in order
SendError(e) ==
    CASE e.exc = "KeyboardInterrupt" -> KeyboardInterrupt
      [] e.exc = "WebSocketTimeoutException" -> RustRCONError(MsgNoReply, NoStatus, "")
      [] e.exc = "JSONDecodeError" -> RustRCONError(MsgInvalidJson, NoStatus, "")
      [] OTHER -> RustRCONError(MsgSendError, NoStatus, e.text)

\* what ws.send(message) can do on connection c: a closed connection carries nothing
SendOutcomes(c) ==
    IF connState[c] = "open" THEN {Returned} \cup IoFailures ELSE IoFailures

\* mutant of Exchange: a failed send is tried once more before giving up
Exchange_Resend(s, r, reply) ==
    IF s # Returned
    THEN [io |-> <<"send", "send">>, exc |-> s, value |-> NoValue, recvd |-> ""]
    ELSE IF r # Returned
    THEN [io |-> <<"send", "recv">>, exc |-> r, value |-> NoValue, recvd |-> ""]
    ELSE [io |-> <<"send", "recv">>, exc |-> JsonLoads(reply).exc,
          value |-> JsonLoads(reply).value, recvd |-> reply.text]

\* the body of the try block of send_command: send, recv, json.loads.
\* s: how ws.send ends; r: how ws.recv ends; reply: what ws.recv returns
Exchange(s, r, reply) ==
    IF s # Returned
    THEN [io |-> <<"send">>, exc |-> s, value |-> NoValue, recvd |-> ""]
    ELSE IF r # Returned
    THEN [io |-> <<"send", "recv">>, exc |-> r, value |-> NoValue, recvd |-> ""]
    ELSE [io |-> <<"send", "recv">>, exc |-> JsonLoads(reply).exc,
          value |-> JsonLoads(reply).value, recvd |-> reply.text]

\* mutant of NextRequestId: the counter is not incremented
NextRequestId_Stuck(n) == n

\* self.request_id += 1
NextRequestId(n) == n + 1

\* mutant of SendCommand: the counter is advanced only when the exchange succeeded
SendCommand_IncrementOnSuccess(cmd, s, r, reply) ==
    IF ~Truthy(ws)
    THEN /\ lastOp' = OpRecord("send_command", RustRCONError(MsgNotConnected, NoStatus, ""),
                               <<>>, NoValue, 0, "", Returned)
         /\ UNCHANGED <<ws, request_id, connState, closeCalls, sent>>
    ELSE /\ Len(sent) < MaxRequests
         /\ s \in SendOutcomes(ws)
         /\ LET x == Exchange(s, r, reply)
            IN /\ request_id' = IF x.exc = Returned THEN request_id + 1 ELSE request_id
               /\ lastOp' = OpRecord("send_command",
                                     IF x.exc = Returned THEN NoError ELSE SendError(x.exc),
                                     x.io, x.value, 0, x.recvd, x.exc)
         /\ sent' = Append(sent, [conn |-> ws, cmd |-> cmd,
                                  payload |-> JsonDumpsRequest(request_id + 1, cmd)])
         /\ UNCHANGED <<ws, connState, closeCalls>>

\* RustRCONClient.send_command(cmd)
SendCommand(cmd, s, r, reply) ==
    IF ~Truthy(ws)
    THEN /\ lastOp' = OpRecord("send_command", RustRCONError(MsgNotConnected, NoStatus, ""),
                               <<>>, NoValue, 0, "", Returned)
         /\ UNCHANGED <<ws, request_id, connState, closeCalls, sent>>
    ELSE /\ request_id < MaxRequests
         /\ s \in SendOutcomes(ws)
         /\ request_id' = NextRequestId(request_id)
         /\ sent' = Append(sent, [conn |-> ws, cmd |-> cmd,
                                  payload |-> JsonDumpsRequest(request_id', cmd)])
         /\ LET x == Exchange(s, r, reply)
            IN lastOp' = OpRecord("send_command",
                                  IF x.exc = Returned THEN NoError ELSE SendError(x.exc),
                                  x.io, x.value, 0, x.recvd, x.exc)
         /\ UNCHANGED <<ws, connState, closeCalls>>

----------------------------------------------------------------------------
(* Any sequence of calls on one client *)

NoOp == [op |-> "none", err |-> NoError, io |-> <<>>, ret |-> NoValue, closes |-> 0,
         recvd |-> "", exc |-> Returned,
         pre_ws |-> 0, pre_request_id |-> 0, pre_open |-> FALSE]

\* RustRCONClient.__init__
InitClient ==
    /\ ws = 0
    /\ request_id = 0
    /\ connState = [c \in Conns |-> "unused"]
    /\ closeCalls = [c \in Conns |-> 0]
    /\ sent = <<>>
    /\ lastOp = NoOp

Init ==
    /\ InitClient
    /\ pc = "lib"
    /\ raw = FALSE
    /\ command = ""
    /\ response = NoValue
    /\ out = <<>>
    /\ calls = <<>>
    /\ sysExit = -1
    /\ exitCode = -1

CallConnect ==
    /\ pc = "lib"
    /\ \E o \in ConnectOutcomes : Connect(o)
    /\ UNCHANGED mainVars

CallDisconnect ==
    /\ pc = "lib"
    /\ Disconnect
    /\ UNCHANGED mainVars

\* the transport's part in one send_command call: how ws.send ends, how ws.recv
\* ends, what ws.recv returns (one representative of what the call never reads)
Exchanges ==
    {x \in [s : {Returned} \cup IoFailures, r : {Returned} \cup IoFailures,
            reply : Replies] :
        /\ x.s # Returned => x.r = Returned
        /\ (x.s # Returned \/ x.r # Returned) =>
               x.reply = CHOOSE y \in Replies : y.form = "object" /\ y.hasMessage}

CallSendCommand ==
    /\ pc = "lib"
    /\ \E cmd \in Commands, x \in Exchanges : SendCommand(cmd, x.s, x.r, x.reply)
    /\ UNCHANGED mainVars

Next == CallConnect \/ CallDisconnect \/ CallSendCommand

Spec == Init /\ [][Next]_vars

----------------------------------------------------------------------------
(* One run of main() *)

\* str(e) of the exception a client method raised
StrOf(e) == e.fmt \o (IF e.status # NoStatus THEN ToString(e.status) ELSE e.detail)

Line(label, arg) == [label |-> label, arg |-> arg]

\* main() after parse_args: the client is constructed, nothing is called yet
InitMain ==
    /\ InitClient
    /\ pc = "connect"
    /\ raw \in BOOLEAN
    /\ command \in Commands
    /\ response = NoValue
    /\ out = <<>>
    /\ calls = <<>>
    /\ sysExit = -1
    /\ exitCode = -1

\* mutant of Handle: a RustRCONError starts another attempt while fewer than
\* three were made
Handle_Retry(e, printed) ==
    /\ out' = Append(printed, [label |-> "RCON Error: ", arg |-> e.fmt])
    /\ IF e.type = "RustRCONError" /\
          Cardinality({i \in 1..Len(calls) : calls[i] = "connect"}) < 3
       THEN pc' = "connect" /\ UNCHANGED sysExit
       ELSE pc' = "finally" /\ sysExit' = IF e.type = "KeyboardInterrupt" THEN -1 ELSE 1

\* mutant of Handle: the handlers print and none calls sys.exit(1)
Handle_NoExit(e, printed) ==
    /\ pc' = "finally"
    /\ out' = Append(printed,
                     [label |-> IF e.type = "RustRCONError" THEN "RCON Error: "
                                ELSE "Operation interrupted by user.",
                      arg |-> e.fmt \o (IF e.status # NoStatus THEN ToString(e.status)
                                        ELSE e.detail)])
    /\ UNCHANGED sysExit

\* mutant of Handle: the KeyboardInterrupt handler calls sys.exit(1) as well
Handle_InterruptFails(e, printed) ==
    /\ pc' = "finally"
    /\ out' = Append(printed,
                     [label |-> IF e.type = "RustRCONError" THEN "RCON Error: "
                                ELSE "Operation interrupted by user.",
                      arg |-> e.fmt \o (IF e.status # NoStatus THEN ToString(e.status)
                                        ELSE e.detail)])
    /\ sysExit' = 1

\* the except clauses of main(), taken when the try block raises e after it has
\* printed `printed`: RustRCONError prints and calls sys.exit(1), KeyboardInterrupt
\* only prints, any other Exception prints and calls sys.exit(1)
Handle(e, printed) ==
    /\ pc' = "finally"
    /\ IF e.type = "RustRCONError"
       THEN /\ out' = Append(printed, Line("RCON Error: ", StrOf(e)))
            /\ sysExit' = 1
       ELSE IF e.type = "KeyboardInterrupt"
       THEN /\ out' = Append(printed, Line("Operation interrupted by user.", ""))
            /\ UNCHANGED sysExit
       ELSE /\ out' = Append(printed, Line("An unexpected error occurred: ", StrOf(e)))
            /\ sysExit' = 1

\* client.connect()
MainConnect ==
    /\ pc = "connect"
    /\ \E o \in ConnectOutcomes : Connect(o)
    /\ calls' = Append(calls, "connect")
    /\ IF lastOp'.err = NoError
       THEN /\ pc' = "send"
            /\ UNCHANGED <<out, sysExit>>
       ELSE Handle(lastOp'.err, out)
    /\ UNCHANGED <<raw, command, response, exitCode>>

\* response = client.send_command(full_command)
MainSendCommand ==
    /\ pc = "send"
    /\ \E x \in Exchanges : SendCommand(command, x.s, x.r, x.reply)
    /\ calls' = Append(calls, "send_command")
    /\ IF lastOp'.err = NoError
       THEN /\ pc' = "print"
            /\ response' = lastOp'.ret
            /\ UNCHANGED <<out, sysExit>>
       ELSE /\ Handle(lastOp'.err, out)
            /\ UNCHANGED response
    /\ UNCHANGED <<raw, command, exitCode>>

\* response.get('Message', 'No message in response'): only a dict has .get
GetMessage(v) ==
    IF v.type # "dict"
    THEN [exc |-> [type |-> "AttributeError", fmt |-> "", status |-> NoStatus,
                   detail |-> "object has no attribute 'get'"],
          value |-> ""]
    ELSE [exc |-> NoError,
          value |-> IF v.hasMessage THEN v.Message ELSE "No message in response"]

\* the printing of the response
MainPrint ==
    /\ pc = "print"
    /\ IF raw
       THEN /\ out' = Append(out, Line("json.dumps", response.type))
            /\ pc' = "finally"
            /\ UNCHANGED sysExit
       ELSE IF GetMessage(response).exc = NoError
       THEN /\ out' = out \o << Line("Server response:", ""),
                                Line("", GetMessage(response).value) >>
            /\ pc' = "finally"
            /\ UNCHANGED sysExit
       ELSE Handle(GetMessage(response).exc, Append(out, Line("Server response:", "")))
    /\ UNCHANGED <<raw, command, response, calls, exitCode>>
    /\ UNCHANGED clientVars

\* the finally clause, and the end of the process: a sys.exit() in flight
\* decides the exit status, otherwise main() returns and the status is 0
MainFinally ==
    /\ pc = "finally"
    /\ Disconnect
    /\ calls' = Append(calls, "disconnect")
    /\ pc' = "done"
    /\ exitCode' = IF sysExit = -1 THEN 0 ELSE sysExit
    /\ UNCHANGED <<raw, command, response, out, sysExit>>

NextMain == MainConnect \/ MainSendCommand \/ MainPrint \/ MainFinally

SpecMain == InitMain /\ [][NextMain]_vars

----------------------------------------------------------------------------
(* Helpers of the properties *)

Count(seq, x) == Cardinality({i \in 1..Len(seq) : seq[i] = x})

\* the Identifier member of the i-th message handed to ws.send()
SentIdentifier(i) == sent[i].payload[1].value

\* how many of the first i messages went to the connection of the i-th
SentOnSameConn(i) == Cardinality({j \in 1..i : sent[j].conn = sent[i].conn})

NotConnectedError == RustRCONError(MsgNotConnected, NoStatus, "")

----------------------------------------------------------------------------
(* C1 *)

\* C1 (as claimed): whenever send_command() is called while the Session is not
\* open (never opened, open failed, or closed by disconnect()), it fails with
\* the not-connected error and calls neither ws.send nor ws.recv.
C1_NotConnectedWithoutIO ==
    (lastOp.op = "send_command" /\ ~lastOp.pre_open) =>
        (lastOp.err = NotConnectedError /\ lastOp.io = <<>>)

----------------------------------------------------------------------------
(* C2 *)

\* C2: in a run of main(), a connection is closed at most once, a connection
\* never opened is never closed, and when the process has ended (on any exit
\* path) every connection that was opened has been closed exactly once.
C2_ClosedExactlyOnce ==
    /\ \A c \in Conns : closeCalls[c] <= 1
    /\ \A c \in Conns : connState[c] = "unused" => closeCalls[c] = 0
    /\ exitCode # -1 =>
          /\ pc = "done"
          /\ \A c \in Conns : connState[c] # "open"
          /\ \A c \in Conns : connState[c] = "closed" => closeCalls[c] = 1
          /\ (ws = 0) => lastOp.closes = 0

\* an error path after a successful open: the run ended with exit status 1 and
\* the connection closed once
C2_Witness ==
    /\ pc = "done"
    /\ exitCode = 1
    /\ connState[1] = "closed"
    /\ closeCalls[1] = 1

\* open never succeeded: the run ended without any ws.close()
C2_WitnessNoOpen ==
    /\ pc = "done"
    /\ ws = 0
    /\ \A c \in Conns : closeCalls[c] = 0

----------------------------------------------------------------------------
(* C3 *)

\* C3 (as claimed): the identifier sent is the number of send_command() calls
\* made so far in the same Session (on the same connection): 1 for the first
\* call of every Session, then 2, 3, ...
C3_PerSessionIdentifier ==
    \A i \in 1..Len(sent) : SentIdentifier(i) = ToString(SentOnSameConn(i))

\* C3 (amended): the identifier sent is the number of send_command() calls that
\* passed the connected check over the whole life of the client: the n-th message
\* handed to ws.send() carries Identifier n, request_id is the number of messages
\* sent, and so within one Session the identifier rises by exactly 1 per call and
\* never repeats; only the first Session of a client starts at 1.
C3_PerClientIdentifier ==
    /\ request_id = Len(sent)
    /\ \A i \in 1..Len(sent) : SentIdentifier(i) = ToString(i)

\* two commands sent in one Session, then one in a second Session
C3_Witness ==
    /\ Len(sent) = 3
    /\ sent[1].conn = sent[2].conn
    /\ sent[3].conn # sent[1].conn
    /\ SentIdentifier(3) = "3"

----------------------------------------------------------------------------
(* C4 *)

OpenAttempts == Count(calls, "connect")
Executes == Count(calls, "send_command")

\* the run was ended by a RustRCONError
EndedByDomainError == \E i \in 1..Len(out) : out[i].label = "RCON Error: "

\* the run was ended by a KeyboardInterrupt
Interrupted == \E i \in 1..Len(out) : out[i].label = "Operation interrupted by user."

\* C4 (as claimed): a failed attempt is followed by a new open() while attempts
\* remain of the three: the process does not end on a domain error before the
\* third open attempt.
C4_RetryWhileAttemptsRemain ==
    (pc = "done" /\ EndedByDomainError) => OpenAttempts = 3

\* C4 (amended): main() has no retry loop.  A run makes at most one open attempt,
\* one execute and one close, in this order; a domain error from open or execute
\* ends the run (no new open()), and nothing but the close follows a successful
\* execute.
C4_SingleAttempt ==
    /\ calls \in {<<>>, <<"connect">>, <<"connect", "disconnect">>,
                  <<"connect", "send_command">>,
                  <<"connect", "send_command", "disconnect">>}
    /\ EndedByDomainError => (pc \in {"finally", "done"} /\ sysExit = 1)
    /\ response # NoValue => pc \in {"print", "finally", "done"}
    /\ (pc = "done" /\ EndedByDomainError /\ Executes = 0) =>
          (OpenAttempts = 1 /\ exitCode = 1 /\ \A c \in Conns : closeCalls[c] = 0)

\* open failed with a domain error and the run ended after this one attempt
C4_Witness ==
    /\ pc = "done"
    /\ calls = <<"connect", "disconnect">>
    /\ EndedByDomainError
    /\ exitCode = 1

----------------------------------------------------------------------------
(* C5 *)

\* C5 (as claimed, default retry-count 3): when every open attempt fails with a
\* domain error the run makes exactly 3 open attempts, prints 3 error reports
\* and ends with a non-zero exit status.
C5_ThreeAttemptsThenFailure ==
    (pc = "done" /\ EndedByDomainError /\ Executes = 0) =>
        /\ OpenAttempts = 3
        /\ Cardinality({i \in 1..Len(out) : out[i].label = "RCON Error: "}) = 3
        /\ exitCode > 0

\* C5 (amended): there is no retry-count.  When open fails with a domain error
\* the run makes exactly 1 open attempt, prints exactly one report, "RCON Error: "
\* followed by the message of the error, and ends with exit status 1; the exit
\* status is set only when the finally clause has called disconnect().
C5_OneAttemptThenFailure ==
    /\ (lastOp.op = "connect" /\ lastOp.err.type = "RustRCONError") =>
          /\ out = << Line("RCON Error: ", StrOf(lastOp.err)) >>
          /\ pc = "finally" /\ sysExit = 1 /\ exitCode = -1
    /\ (pc = "done" /\ EndedByDomainError /\ Executes = 0) =>
          /\ OpenAttempts = 1
          /\ Len(out) = 1
          /\ calls = <<"connect", "disconnect">>
          /\ exitCode = 1
    /\ exitCode # -1 => (pc = "done" /\ calls[Len(calls)] = "disconnect")

\* open timed out: one report, then exit status 1
C5_Witness ==
    /\ pc = "done"
    /\ out = << Line("RCON Error: ", MsgTimedOut) >>
    /\ OpenAttempts = 1
    /\ exitCode = 1

----------------------------------------------------------------------------
(* C6 *)

\* C6 (as claimed): when the process has ended, its exit status is 0 if
\* send_command() returned a decoded reply (whatever the reply, in human and in
\* raw mode), and non-zero if the run was ended by a RustRCONError.
C6_ExitCodes ==
    pc = "done" =>
        /\ response # NoValue => exitCode = 0
        /\ EndedByDomainError => exitCode > 0

----------------------------------------------------------------------------
(* C7 *)

\* the reply whose raw text is t
ReplyOf(t) == CHOOSE y \in Replies : y.text = t

\* send_command() received a reply that json.loads does not decode
UndecodableReply ==
    /\ lastOp.op = "send_command"
    /\ lastOp.recvd # ""
    /\ JsonLoads(ReplyOf(lastOp.recvd)).exc # Returned

\* C7 (as claimed): when the reply cannot be decoded, send_command() fails with
\* the invalid-response error, which is neither the timeout nor the transport
\* error, and the error carries the raw reply text unchanged.
C7_MalformedCarriesRaw ==
    UndecodableReply =>
        /\ lastOp.err.type = "RustRCONError"
        /\ lastOp.err.fmt = MsgInvalidJson
        /\ lastOp.err.fmt \notin {MsgNoReply, MsgSendError}
        /\ lastOp.err.detail = lastOp.recvd

\* C7 (amended): when the reply is text that is no JSON document (json.loads
\* raises JSONDecodeError), send_command() fails with the error whose message is
\* the fixed text "Received invalid JSON response from server.", which is neither
\* the timeout nor the transport error message, and the error carries no part of
\* the reply; when the reply is bytes that are not UTF-8 (UnicodeDecodeError),
\* send_command() fails with the transport error "Error sending command: " carrying
\* the decoder's message, not the reply.
C7_MalformedFixedMessage ==
    UndecodableReply =>
        /\ lastOp.err.type = "RustRCONError"
        /\ lastOp.err.detail # lastOp.recvd
        /\ lastOp.ret = NoValue
        /\ IF lastOp.exc.exc = "JSONDecodeError"
           THEN /\ lastOp.err = RustRCONError(MsgInvalidJson, NoStatus, "")
                /\ lastOp.err.fmt \notin {MsgNoReply, MsgSendError}
           ELSE lastOp.err = RustRCONError(MsgSendError, NoStatus, lastOp.exc.text)

\* a reply that is no JSON document was received and reported
C7_Witness ==
    /\ UndecodableReply
    /\ lastOp.recvd = "<html>busy</html>"
    /\ lastOp.err.fmt = MsgInvalidJson

----------------------------------------------------------------------------
(* C8 *)

\* C8: connect() turns every exception of create_connection that is an Exception
\* into exactly one RustRCONError: a timeout into the timed-out error, a bad
\* status 401 into the authentication error, any other bad status S into the
\* status-code error carrying S, anything else into the failed-to-connect error
\* carrying str(e); the four messages differ.
C8_ConnectErrorMapping ==
    (lastOp.op = "connect" /\ lastOp.exc # Returned /\
     lastOp.exc.exc # "KeyboardInterrupt") =>
        /\ lastOp.err.type = "RustRCONError"
        /\ Cardinality({MsgTimedOut, MsgAuthFailed, MsgBadStatus, MsgConnectFailed}) = 4
        /\ lastOp.exc.exc = "WebSocketTimeoutException" =>
              lastOp.err = RustRCONError(MsgTimedOut, NoStatus, "")
        /\ (lastOp.exc.exc = "WebSocketBadStatusException" /\
            lastOp.exc.status_code = 401) =>
              lastOp.err = RustRCONError(MsgAuthFailed, NoStatus, "")
        /\ (lastOp.exc.exc = "WebSocketBadStatusException" /\
            lastOp.exc.status_code # 401) =>
              lastOp.err = RustRCONError(MsgBadStatus, lastOp.exc.status_code, "")
        /\ lastOp.exc.exc \notin {"WebSocketTimeoutException",
                                  "WebSocketBadStatusException"} =>
              lastOp.err = RustRCONError(MsgConnectFailed, NoStatus, lastOp.exc.text)

\* a handshake rejected with status 403 was reported with its status
C8_Witness ==
    /\ lastOp.op = "connect"
    /\ lastOp.exc.exc = "WebSocketBadStatusException"
    /\ lastOp.err.fmt = MsgBadStatus
    /\ lastOp.err.status = 403

----------------------------------------------------------------------------
(* C9 *)

\* C9 (as claimed): disconnect() on a client whose Session is not open (never
\* opened, or closed by the disconnect() before) does not fault, makes no
\* ws.close() call and leaves the client as it was.
C9_CloseIdempotent ==
    (lastOp.op = "disconnect" /\ ~lastOp.pre_open) =>
        /\ lastOp.err = NoError
        /\ lastOp.closes = 0
        /\ lastOp.io = <<>>
        /\ ws = lastOp.pre_ws
        /\ request_id = lastOp.pre_request_id

----------------------------------------------------------------------------
(* C10 *)

\* C10: a KeyboardInterrupt raised inside connect() or send_command() ends the
\* run: main() calls neither connect() nor send_command() again, the finally
\* clause still calls disconnect(), no sys.exit() is in flight and the process
\* ends with exit status 0.
C10_InterruptEndsRun ==
    Interrupted =>
        /\ pc \in {"finally", "done"}
        /\ sysExit = -1
        /\ calls \in {<<"connect">>, <<"connect", "disconnect">>,
                      <<"connect", "send_command">>,
                      <<"connect", "send_command", "disconnect">>}
        /\ pc = "done" => (exitCode = 0 /\ calls[Len(calls)] = "disconnect")
        /\ (pc = "done" /\ ws # 0) => (connState[ws] = "closed" /\ closeCalls[ws] = 1)

\* send_command() was interrupted; the connection was closed and the exit status is 0
C10_Witness ==
    /\ Interrupted
    /\ pc = "done"
    /\ calls = <<"connect", "send_command", "disconnect">>
    /\ closeCalls[1] = 1
    /\ exitCode = 0

----------------------------------------------------------------------------
(* C11 *)

\* the connections the client opened that are still open
OpenConns == {c \in Conns : connState[c] = "open"}

\* C11 (as claimed): after any sequence of connect() and disconnect() calls at
\* most one connection opened by the client is still open, and an open
\* connection is the one self.ws refers to.
C11_AtMostOneOpen ==
    /\ Cardinality(OpenConns) <= 1
    /\ \A c \in OpenConns : ws = c

----------------------------------------------------------------------------
(* C12 *)

\* C12 (as claimed): after every successful connect() the identifier counter of
\* the client is 0.
C12_CounterZeroAfterOpen ==
    (lastOp.op = "connect" /\ lastOp.err = NoError) => request_id = 0

\* C12 (amended): a successful connect() leaves the identifier counter as it
\* was: it is 0 after a successful connect() only if the client has sent nothing
\* before, and the first send_command() after a successful connect() sends the
\* value the counter had before the connect() plus 1.
C12_CounterKeptAcrossOpen ==
    /\ (lastOp.op = "connect" /\ lastOp.err = NoError) =>
          /\ request_id = lastOp.pre_request_id
          /\ request_id = Len(sent)
          /\ (request_id = 0) <=> (sent = <<>>)
    /\ (lastOp.op = "send_command" /\ lastOp.io # <<>>) =>
          SentIdentifier(Len(sent)) = ToString(lastOp.pre_request_id + 1)

\* a second Session was opened by a client that had already sent two commands
C12_Witness ==
    /\ lastOp.op = "connect"
    /\ lastOp.err = NoError
    /\ ws = 2
    /\ request_id = 2

----------------------------------------------------------------------------
(* C13 *)

\* the keys of the i-th request handed to ws.send(), in order
SentKeys(i) == [k \in 1..Len(sent[i].payload) |-> sent[i].payload[k].key]

\* the rendered value of key k in the i-th request
SentValue(i, k) ==
    (CHOOSE m \in {sent[i].payload[j] : j \in 1..Len(sent[i].payload)} : m.key = k).value

\* C13: every request handed to ws.send() is a JSON object with exactly the
\* three members Identifier, Message and Name: Identifier is the value of
\* request_id at the send (the number n of the request), Message is the command
\* text of the call as a JSON string, Name is the string "WebRcon"; "status" as
\* the first command gives Identifier 1, Message "status", Name "WebRcon".
C13_RequestRecord ==
    /\ \A i \in 1..Len(sent) :
          /\ SentKeys(i) = <<"Identifier", "Message", "Name">>
          /\ SentValue(i, "Identifier") = ToString(i)
          /\ SentValue(i, "Message") = "\"" \o sent[i].cmd \o "\""
          /\ SentValue(i, "Name") = "\"WebRcon\""
    /\ (lastOp.op = "send_command" /\ lastOp.io # <<>>) =>
          SentValue(Len(sent), "Identifier") = ToString(request_id)
    /\ (Len(sent) >= 1 /\ sent[1].cmd = "status") =>
          sent[1].payload = << [key |-> "Identifier", value |-> "1"],
                               [key |-> "Message", value |-> "\"status\""],
                               [key |-> "Name", value |-> "\"WebRcon\""] >>

\* "status" was sent as the first command, and a second command after it
C13_Witness ==
    /\ Len(sent) = 2
    /\ sent[1].cmd = "status"
    /\ SentValue(1, "Identifier") = "1"
    /\ SentValue(2, "Identifier") = "2"
    /\ SentValue(2, "Message") = "\"say hi\""

----------------------------------------------------------------------------
(* C14 *)

\* C14: a send_command() call that passes the connected check makes one ws.send
\* call and after it at most one ws.recv call, and hands exactly one message to
\* the transport: when ws.send raises, the call ends with an error after the
\* send alone; when ws.recv raises or the reply does not decode, it ends with an
\* error after the one send and the one recv; it returns a value only after both.
C14_OneSendOneRecv ==
    lastOp.op = "send_command" =>
        /\ lastOp.io \in {<<>>, <<"send">>, <<"send", "recv">>}
        /\ (lastOp.io = <<>>) <=> (lastOp.err = NotConnectedError /\ lastOp.pre_ws = 0)
        /\ lastOp.io # <<>> => Len(sent) = lastOp.pre_request_id + 1
        /\ lastOp.io = <<>> => Len(sent) = lastOp.pre_request_id
        /\ lastOp.io = <<"send">> =>
              (lastOp.err # NoError /\ lastOp.exc \in IoFailures /\ lastOp.recvd = "")
        /\ lastOp.err = NoError => (lastOp.io = <<"send", "recv">> /\ lastOp.ret # NoValue)
        /\ lastOp.pre_open => lastOp.io # <<>>

\* on an open Session the send went through and the receive timed out: the call
\* ended with the no-reply error after one send and one recv
C14_Witness ==
    /\ lastOp.op = "send_command"
    /\ lastOp.pre_open
    /\ lastOp.io = <<"send", "recv">>
    /\ lastOp.err = RustRCONError(MsgNoReply, NoStatus, "")

----------------------------------------------------------------------------
(* C15 *)

\* C15: over the whole life of a client no two messages handed to ws.send()
\* carry the same Identifier, whatever connect(), disconnect() and failed
\* send_command() calls lie between them; a method call never lowers request_id,
\* every send attempt raises it, also when the send or the receive fails, and a
\* send_command() that fails with the not-connected error leaves it unchanged.
C15_IdentifiersUnique ==
    /\ \A i \in 1..Len(sent) : \A j \in 1..Len(sent) :
          i # j => SentIdentifier(i) # SentIdentifier(j)
    /\ request_id >= lastOp.pre_request_id
    /\ (lastOp.op = "send_command" /\ lastOp.io # <<>>) =>
          request_id = lastOp.pre_request_id + 1
    /\ lastOp.op \in {"connect", "disconnect"} => request_id = lastOp.pre_request_id
    /\ (lastOp.op = "send_command" /\ lastOp.err = NotConnectedError) =>
          (request_id = lastOp.pre_request_id /\ Len(sent) = request_id)

\* the client sent a command, connected again and sent once more, and this
\* exchange failed: two requests on two connections, identifiers 1 and 2
C15_Witness ==
    /\ Len(sent) = 2
    /\ sent[1].conn # sent[2].conn
    /\ lastOp.op = "send_command"
    /\ lastOp.err.fmt = MsgSendError
    /\ request_id = 2

----------------------------------------------------------------------------
(* C16 *)

\* C16: a connect() that fails (timeout, rejected handshake, any other exception
\* of create_connection) leaves self.ws and request_id as they were before the
\* call and opens no connection; and as long as no connect() has succeeded the
\* handle is None, send_command() fails with the not-connected error without
\* transport I/O, and disconnect() makes no ws.close() call.
C16_FailedConnectFrame ==
    /\ (lastOp.op = "connect" /\ lastOp.err # NoError) =>
          /\ ws = lastOp.pre_ws
          /\ request_id = lastOp.pre_request_id
          /\ lastOp.pre_ws = 0 => \A c \in Conns : connState[c] = "unused"
    /\ (\A c \in Conns : connState[c] = "unused") =>
          /\ ws = 0
          /\ lastOp.op = "send_command" =>
                (lastOp.err = NotConnectedError /\ lastOp.io = <<>> /\ sent = <<>>)
          /\ lastOp.op = "disconnect" =>
                (lastOp.closes = 0 /\ \A c \in Conns : closeCalls[c] = 0)

\* a connect() of a client that holds a connection and has sent a command was
\* rejected with a bad status: handle and counter are the ones from before
C16_Witness ==
    /\ lastOp.op = "connect"
    /\ lastOp.exc.exc = "WebSocketBadStatusException"
    /\ lastOp.err.type = "RustRCONError"
    /\ lastOp.pre_ws = 1
    /\ ws = 1
    /\ request_id = 1

\* no connect() has succeeded yet and send_command() reported not-connected
C16_WitnessFirstConnect ==
    /\ lastOp.op = "send_command"
    /\ lastOp.err = NotConnectedError
    /\ \A c \in Conns : connState[c] = "unused"

====
